---- MODULE Spec2Model ----
(***************************************************************************)
(* Model of utils/trends.py: get_netflix_trends, the trend series fetcher  *)
(* (batching of more than 5 keywords, anchor rescaling, merge, reindex),   *)
(* and of the st.cache_data(ttl=3600) memoization that wraps it.           *)
(*                                                                         *)
(* Keywords are the numbers 1..MaxN (the strings of the program); the      *)
(* keyword lists are lists of distinct keywords.  A table (DataFrame) is   *)
(* a record [cols, rows, val]: the ordered column labels, the set of       *)
(* timestamps of the index and the value of each cell.  A cell value is a  *)
(* rational [n, d] in lowest terms; d = 0 stands for the floats that are   *)
(* no number: [n |-> 0, d |-> 0] is NaN and [n |-> 1, d |-> 0] is inf.     *)
(* Float rounding is not modelled: arithmetic is exact.                    *)
(*                                                                         *)
(* Also modelled: the snapshot table selection of utils/bigquery_data.py   *)
(* (get_top10_predictions and get_title_viral_rate), each call as one      *)
(* step over a dataset state chosen at the call, and the two page sections *)
(* that use get_top10_predictions: the Top-10 section of app.py and tab 1  *)
(* of display_trends_section.  A date string 'YYYYMMDD' is the number its  *)
(* digits spell, a date is a day number.                                   *)
(***************************************************************************)
EXTENDS Integers, Sequences, FiniteSets, TLC

\* ------------------------------------------------------------------ bounds
MaxN == 10
NumRows == 2
MaxTicks == 3
MaxDays == 2
MaxLookback == 2

\* ------------------------------------------------------- program constants
BatchCap == 5
BatchStep == 4
TTL == 3600
PrefixLen == 11

\* seconds the clock advances in one step of the model
TickLen == TTL \div 2

\* an optional value: None, or Some(x) holding x
None == <<>>
Some(x) == <<x>>
The(o) == o[1]
IsPartial == 0
Keywords == 1..MaxN
Timestamps == 1..NumRows

\* ------------------------------------------------------------------ values
RECURSIVE GCD(_, _)
GCD(a, b) == IF b = 0 THEN a ELSE GCD(b, a % b)

Rat(n, d) ==
    IF d = 0 THEN [n |-> IF n = 0 THEN 0 ELSE 1, d |-> 0]
    ELSE IF n = 0 THEN [n |-> 0, d |-> 1]
    ELSE [n |-> n \div GCD(n, d), d |-> d \div GCD(n, d)]

Int2Rat(v) == [n |-> v, d |-> 1]
Zero == Int2Rat(0)
NaN == [n |-> 0, d |-> 0]
IsNaN(x) == x.d = 0 /\ x.n = 0
IsFinite(x) == x.d > 0

\* float multiplication and division (x / 0 is inf, 0 / 0 and inf * 0 are NaN)
Mul(x, y) == Rat(x.n * y.n, x.d * y.d)
Div(x, y) == Rat(x.n * y.d, x.d * y.n)
Leq(x, y) == x.n * y.d <= y.n * x.d

\* ------------------------------------------------------------------ tables
RECURSIVE SeqToSet(_)
SeqToSet(s) == IF s = <<>> THEN {} ELSE {Head(s)} \cup SeqToSet(Tail(s))

RECURSIVE SelectCols(_, _)
SelectCols(s, keep) ==
    IF s = <<>> THEN <<>>
    ELSE IF Head(s) \in keep THEN <<Head(s)>> \o SelectCols(Tail(s), keep)
    ELSE SelectCols(Tail(s), keep)

EmptyDF == [cols |-> <<>>, rows |-> {}, val |-> <<>>]
\* DataFrame.empty: an axis of length 0
Empty(df) == df.cols = <<>> \/ df.rows = {}

HasCol(df, c) == c \in SeqToSet(df.cols)

\* df.drop(columns=[c], errors='ignore')
Drop(df, c) ==
    LET cs == SelectCols(df.cols, SeqToSet(df.cols) \ {c})
    IN [cols |-> cs, rows |-> df.rows,
        val |-> [p \in SeqToSet(cs) \X df.rows |-> df.val[p]]]

\* df.multiply(scale)
Multiply(df, scale) ==
    [cols |-> df.cols, rows |-> df.rows,
     val |-> [p \in SeqToSet(df.cols) \X df.rows |-> Mul(df.val[p], scale)]]

\* pd.concat([a, b], axis=1): columns of a then of b, outer join of the rows
Concat(a, b) ==
    LET rs == a.rows \cup b.rows
        cs == SeqToSet(a.cols) \cup SeqToSet(b.cols)
    IN [cols |-> a.cols \o b.cols, rows |-> rs,
        val |-> [p \in cs \X rs |->
                   IF p[1] \in SeqToSet(a.cols)
                   THEN (IF p[2] \in a.rows THEN a.val[p] ELSE NaN)
                   ELSE (IF p[2] \in b.rows THEN b.val[p] ELSE NaN)]]

\* FillNa without the fillna(0): the missing values stay
FillNaKeep(df) == df

\* pd.to_numeric(df[col], errors='coerce').fillna(0), for every column
FillNa(df) ==
    [cols |-> df.cols, rows |-> df.rows,
     val |-> [p \in SeqToSet(df.cols) \X df.rows |->
                IF IsNaN(df.val[p]) THEN Zero ELSE df.val[p]]]

\* df.reindex(columns=kws, fill_value=0)
Reindex(df, kws) ==
    [cols |-> kws, rows |-> df.rows,
     val |-> [p \in SeqToSet(kws) \X df.rows |->
                IF HasCol(df, p[1]) THEN df.val[p] ELSE Zero]]

\* df[c].astype(float): the column as a series over the index
Series(df, c) == [r \in df.rows |-> df.val[<<c, r>>]]

RECURSIVE SumOver(_, _)
SumOver(f, S) ==
    IF S = {} THEN 0
    ELSE LET r == CHOOSE x \in S : TRUE IN f[r].n + SumOver(f, S \ {r})

\* series.mean() of a series of whole numbers
Mean(series) == Rat(SumOver(series, DOMAIN series), Cardinality(DOMAIN series))

\* ---------------------------------------------------------- the trend API
\* What interest_over_time() can answer to a request: one column per keyword
\* it has data for (in request order) and the isPartial column, over all
\* timestamps or only the last one, whole values 0..100.  The first keyword
\* of the request takes its values from an anchor profile, the others from a
\* level; the values differ from column to column and from row to row.
AnchorProfiles == {"zero", "m25", "m50", "full"}
Levels == {"low", "high"}

AnchorVal(profile, r) ==
    CASE profile = "zero" -> 0
      [] profile = "m25" -> IF r % 2 = 1 THEN 30 ELSE 20
      [] profile = "m50" -> IF r % 2 = 1 THEN 100 ELSE 0
      [] OTHER -> 100

OtherVal(level, k, r) ==
    IF level = "high" THEN 100 - 10 * (k % 4) - 5 * (r % 2)
    ELSE 10 * (k % 4) + 5 * (r % 2)

Shapes(req) ==
    LET all == SeqToSet(req)
    IN {<<all, Timestamps>>, <<all, {NumRows}>>}
       \cup (IF Len(req) > 1
             THEN {<<all \ {req[1]}, Timestamps>>, <<all \ {req[Len(req)]}, Timestamps>>}
             ELSE {})

Response(req, shape, profile, level) ==
    LET cs == SelectCols(req, shape[1]) \o <<IsPartial>>
    IN [cols |-> cs, rows |-> shape[2],
        val |-> [p \in SeqToSet(cs) \X shape[2] |->
                   Int2Rat(IF p[1] = IsPartial THEN 0
                           ELSE IF p[1] = req[1] THEN AnchorVal(profile, p[2])
                           ELSE OtherVal(level, p[1], p[2]))]]

Responses(req) ==
    {EmptyDF} \cup
    {Response(req, sh, pr, lv) : sh \in Shapes(req), pr \in AnchorProfiles, lv \in Levels}

\* ------------------------------------------------------ get_netflix_trends
DefaultKeywords == <<1, 2, 3, 4, 5>>

\* the keyword lists a call is made with: 1..n in ascending order for every
\* length up to MaxN, and in descending order for the lengths up to two batches
KeywordLists ==
    {[j \in 1..n |-> j] : n \in 1..MaxN}
        \cup {[j \in 1..n |-> n + 1 - j] : n \in 1..(BatchCap + BatchStep)}

Min(a, b) == IF a < b THEN a ELSE b

\* s[a:b] of Python
PySlice(s, a, b) == SubSeq(s, a + 1, Min(b, Len(s)))

RECURSIVE BatchLoop(_, _, _)
BatchLoop(kws, idx, acc) ==
    IF idx < Len(kws)
    THEN BatchLoop(kws, idx + BatchStep,
                   Append(acc, <<kws[1]>> \o PySlice(kws, idx, idx + BatchStep)))
    ELSE acc

\* BuildBatches with idx advanced by 5 while 4 keywords are taken
RECURSIVE BatchLoopStride(_, _, _)
BatchLoopStride(kws, idx, acc) ==
    IF idx < Len(kws)
    THEN BatchLoopStride(kws, idx + BatchCap,
                         Append(acc, <<kws[1]>> \o PySlice(kws, idx, idx + BatchStep)))
    ELSE acc

BuildBatchesStride(kws) == BatchLoopStride(kws, BatchCap, <<PySlice(kws, 0, BatchCap)>>)

\* BuildBatches with the later batches started one keyword early
BuildBatchesOverlap(kws) == BatchLoop(kws, BatchCap - 1, <<PySlice(kws, 0, BatchCap)>>)

BuildBatches(kws) == BatchLoop(kws, BatchCap, <<PySlice(kws, 0, BatchCap)>>)

\* Scale without the guard against a zero mean
ScaleNoGuard(baseline_mean, batch_mean) == Div(baseline_mean, batch_mean)

\* Scale with the ratio upside down
ScaleInverse(baseline_mean, batch_mean) ==
    IF batch_mean = Zero THEN Zero ELSE Div(batch_mean, baseline_mean)

Scale(baseline_mean, batch_mean) ==
    IF batch_mean = Zero THEN Zero ELSE Div(baseline_mean, batch_mean)

\* ProcessBatch that takes a later batch as the base table when batch 1 was empty
ProcessBatchAdopt(i, anchor, df0, total, baseline) ==
    IF Empty(df0) THEN [df_total |-> total, baseline |-> baseline]
    ELSE LET df == Drop(df0, IsPartial) IN
         IF i = 0 \/ total = None
         THEN [df_total |-> Some(df),
               baseline |-> IF HasCol(df, anchor) THEN Some(Series(df, anchor)) ELSE None]
         ELSE IF ~HasCol(df, anchor) \/ baseline = None
         THEN [df_total |-> total, baseline |-> baseline]
         ELSE LET scale == Scale(Mean(The(baseline)), Mean(Series(df, anchor)))
              IN [df_total |-> Some(Concat(The(total), Drop(Multiply(df, scale), anchor))),
                  baseline |-> baseline]

\* ProcessBatch that keeps the rescaled anchor column of a later batch in
\* place of the one of batch 1
ProcessBatchReanchor(i, anchor, df0, total, baseline) ==
    IF Empty(df0) THEN [df_total |-> total, baseline |-> baseline]
    ELSE LET df == Drop(df0, IsPartial) IN
         IF i = 0
         THEN [df_total |-> Some(df),
               baseline |-> IF HasCol(df, anchor) THEN Some(Series(df, anchor)) ELSE None]
         ELSE IF ~HasCol(df, anchor) \/ baseline = None
         THEN [df_total |-> total, baseline |-> baseline]
         ELSE LET scale == Scale(Mean(The(baseline)), Mean(Series(df, anchor)))
              IN [df_total |-> Some(Concat(Drop(The(total), anchor), Multiply(df, scale))),
                  baseline |-> baseline]

\* ProcessBatch that ends the merge at a later batch without data
ProcessBatchStop(i, anchor, df0, total, baseline) ==
    IF Empty(df0) THEN [df_total |-> total, baseline |-> IF i = 0 THEN baseline ELSE None]
    ELSE LET df == Drop(df0, IsPartial) IN
         IF i = 0
         THEN [df_total |-> Some(df),
               baseline |-> IF HasCol(df, anchor) THEN Some(Series(df, anchor)) ELSE None]
         ELSE IF ~HasCol(df, anchor) \/ baseline = None
         THEN [df_total |-> total, baseline |-> baseline]
         ELSE LET scale == Scale(Mean(The(baseline)), Mean(Series(df, anchor)))
              IN [df_total |-> Some(Concat(The(total), Drop(Multiply(df, scale), anchor))),
                  baseline |-> baseline]

\* one pass of the loop over the batches, i counted from 0 as in the code;
\* total is the optional df_total, baseline the optional baseline anchor series
ProcessBatch(i, anchor, df0, total, baseline) ==
    IF Empty(df0) THEN [df_total |-> total, baseline |-> baseline]
    ELSE LET df == Drop(df0, IsPartial) IN
         IF i = 0
         THEN [df_total |-> Some(df),
               baseline |-> IF HasCol(df, anchor) THEN Some(Series(df, anchor)) ELSE None]
         ELSE IF ~HasCol(df, anchor) \/ baseline = None
         THEN [df_total |-> total, baseline |-> baseline]
         ELSE LET scale == Scale(Mean(The(baseline)), Mean(Series(df, anchor)))
              IN [df_total |-> Some(Concat(The(total), Drop(Multiply(df, scale), anchor))),
                  baseline |-> baseline]

\* after the loop
Finalize(total, kws) ==
    IF total = None THEN None
    ELSE IF Empty(The(total)) THEN None
    ELSE Some(Reindex(FillNa(The(total)), kws))

\* SingleRequest with the keywords in reverse order
SingleRequestReversed(kws) == [j \in 1..Len(kws) |-> kws[Len(kws) + 1 - j]]

\* the single request of a list of at most 5 keywords
SingleRequest(kws) == kws
SingleResult(df) == IF ~Empty(df) THEN Some(Drop(df, IsPartial)) ELSE None

\* ExceptHandler that returns the table built so far
ExceptHandlerPartial(total) == [ret |-> total, errors |-> 1, raised |-> FALSE]

\* except Exception as e: st.error(...); return None
ExceptHandler(total) == [ret |-> None, errors |-> 1, raised |-> FALSE]

\* ------------------------------------------------------------ st.cache_data
\* the arguments the memoized function is called with in CacheSpec
CacheArgs == {None, Some(<<1>>)}

\* an entry is kept with the time it expires at
NoEntry == <<>>

\* CacheHit that never lets an entry expire
CacheHitForever(entry, t) == entry /= NoEntry

\* CacheStore that keeps no entry for an absent result
CacheStoreTables(value, t) ==
    IF value = None THEN NoEntry ELSE <<[value |-> value, expires |-> t + TTL]>>

CacheHit(entry, t) == entry /= NoEntry /\ t < entry[1].expires
CacheStore(value, t) == <<[value |-> value, expires |-> t + TTL]>>

\* ------------------------------------------------- dates and table names
\* a date is a day number (days since 1970-01-01), a date string 'YYYYMMDD'
\* is the number its eight digits spell; the text 'latest' is Latest
Latest == 0

IsLeap(y) == (y % 4 = 0 /\ y % 100 /= 0) \/ y % 400 = 0
DaysInMonth(y, m) ==
    IF m = 2 THEN (IF IsLeap(y) THEN 29 ELSE 28)
    ELSE IF m \in {4, 6, 9, 11} THEN 30 ELSE 31

\* the day number of the civil date y-m-d
DaysFromCivil(y, m, d) ==
    LET yy  == IF m <= 2 THEN y - 1 ELSE y
        era == yy \div 400
        yoe == yy - era * 400
        mp  == IF m > 2 THEN m - 3 ELSE m + 9
        doy == (153 * mp + 2) \div 5 + d - 1
        doe == yoe * 365 + yoe \div 4 - yoe \div 100 + doy
    IN era * 146097 + doe - 719468

\* the civil date of a day number
CivilFromDays(z) ==
    LET zz  == z + 719468
        era == zz \div 146097
        doe == zz - era * 146097
        yoe == (doe - doe \div 1460 + doe \div 36524 - doe \div 146096) \div 365
        doy == doe - (365 * yoe + yoe \div 4 - yoe \div 100)
        mp  == (5 * doy + 2) \div 153
        d   == doy - (153 * mp + 2) \div 5 + 1
        m   == IF mp < 10 THEN mp + 3 ELSE mp - 9
        y   == yoe + era * 400 + (IF m <= 2 THEN 1 ELSE 0)
    IN [y |-> y, m |-> m, d |-> d]

\* Strptime that takes any eight digits for a date
StrptimeLenient(s) ==
    IF s >= 10000000 /\ s <= 99999999
    THEN Some(DaysFromCivil(s \div 10000, (s \div 100) % 100, s % 100))
    ELSE None

\* datetime.strptime(s, '%Y%m%d'): the date, or None where it raises
Strptime(s) ==
    LET y == s \div 10000
        m == (s \div 100) % 100
        d == s % 100
    IN IF /\ s >= 10000000 /\ s <= 99999999
          /\ m >= 1 /\ m <= 12
          /\ d >= 1 /\ d <= DaysInMonth(y, m)
       THEN Some(DaysFromCivil(y, m, d))
       ELSE None

\* date.strftime('%Y%m%d')
Strftime(day) ==
    LET c == CivilFromDays(day) IN c.y * 10000 + c.m * 100 + c.d

\* len() of the text a suffix stands for
SuffixLen(s) == IF s = Latest THEN 6 ELSE 8

\* datetime.datetime.utcnow(), and the days the dataset can hold a snapshot of
Today == DaysFromCivil(2025, 1, 1)
Days == (Today - MaxDays + 1)..Today

\* a table id: 'prediction_' or another prefix, then the suffix
Table(prefix, suffix) == [prefix |-> prefix, suffix |-> suffix]
PredictionLatest == Table(TRUE, Latest)
Snapshot(day) == Table(TRUE, Strftime(day))

\* a date string that is no date, and the tables a dataset may hold besides
\* the snapshots of Days and the alias
BadDate == 20250230
TableIds ==
    {Snapshot(day) : day \in Days}
        \cup {PredictionLatest, Table(TRUE, BadDate), Table(FALSE, Strftime(Today + 1))}

\* ------------------------------------------------------ the BigQuery client
\* the state of the dataset during one call: the tables it holds, whether
\* list_tables raises, and the tables get_table raises for though they exist
Envs ==
    {[tables |-> ts, list_fails |-> lf, denied |-> dn] :
        ts \in SUBSET TableIds, lf \in BOOLEAN, dn \in SUBSET {Snapshot(day) : day \in Days}}
Env == {env \in Envs : env.denied \subseteq env.tables}

\* client.list_tables(dataset_ref): the tables, or None where it raises
ListTables(env) == IF env.list_fails THEN None ELSE Some(env.tables)

\* client.get_table(candidate) returns (TRUE) or raises (FALSE)
GetTable(env, candidate) == candidate \in env.tables \ env.denied

\* what client.query(query).to_dataframe() can do: raise, or answer the rows
\* in rank order; a row is its title
RowCounts == {0, BatchCap - 2, BatchCap + 2}
Rows(n) == [j \in 1..n |-> n + 1 - j]
Raises == [raises |-> TRUE, df |-> <<>>]
Answers(df) == [raises |-> FALSE, df |-> df]
QueryOutcomes == {Raises} \cup {Answers(Rows(n)) : n \in RowCounts}
Query(env, table, outcome) == IF table \in env.tables THEN outcome ELSE Raises

Max(a, b) == IF a > b THEN a ELSE b

\* ------------------------------------------------ get_top10_predictions

\* the loop over the listed tables, lines 40-55: the table with the latest date
\* among those whose name parses, None when there is none
RECURSIVE ScanTables(_, _, _)
ScanTables(tables, latest_date, latest_table) ==
    IF tables = {} THEN latest_table
    ELSE LET t    == CHOOSE x \in tables : TRUE
             rest == tables \ {t}
             dt   == IF t.prefix /\ PrefixLen + SuffixLen(t.suffix) >= PrefixLen + 8
                     THEN Strptime(t.suffix)
                     ELSE None
         IN IF dt /= None /\ (latest_date = None \/ The(dt) > The(latest_date))
            THEN ScanTables(rest, dt, Some(t))
            ELSE ScanTables(rest, latest_date, latest_table)

\* lines 37-59: the enumeration; a listing that raises finds nothing
LatestTable(env) ==
    LET tables == ListTables(env)
    IN IF tables = None THEN None ELSE ScanTables(The(tables), None, None)

\* lines 62-70
BaseDate(date_str) ==
    IF date_str /= None /\ Strptime(The(date_str)) /= None
    THEN The(Strptime(The(date_str)))
    ELSE Today
DatesToTry(date_str, lookback_days) ==
    [d \in 1..(Max(lookback_days, 0) + 1) |-> Strftime(BaseDate(date_str) - (d - 1))]

\* lines 78-87: the candidates are probed in order until get_table returns
RECURSIVE Probe(_, _, _, _)
Probe(env, dates_to_try, k, probed) ==
    IF k > Len(dates_to_try) THEN [table |-> None, probed |-> probed]
    ELSE LET candidate == Table(TRUE, dates_to_try[k])
         IN IF GetTable(env, candidate)
            THEN [table |-> Some(candidate), probed |-> Append(probed, candidate)]
            ELSE Probe(env, dates_to_try, k + 1, Append(probed, candidate))

\* SelectTable that takes the last candidate that exists
SelectTableOldest(date_str, lookback_days, env) ==
    LET dates == DatesToTry(date_str, lookback_days)
        found == {k \in 1..Len(dates) : GetTable(env, Table(TRUE, dates[k]))}
    IN [table_to_query |-> IF date_str = None /\ lookback_days = 0
                           THEN (IF LatestTable(env) /= None THEN The(LatestTable(env))
                                 ELSE PredictionLatest)
                           ELSE IF found = {} THEN PredictionLatest
                           ELSE Table(TRUE, dates[CHOOSE k \in found : \A m \in found : m <= k]),
        listed |-> date_str = None /\ lookback_days = 0,
        probed |-> IF date_str = None /\ lookback_days = 0 THEN <<>>
                   ELSE [k \in 1..Len(dates) |-> Table(TRUE, dates[k])]]

\* lines 33-87: the table the query reads, whether the dataset was listed
\* and the candidates probed
SelectTable(date_str, lookback_days, env) ==
    LET enumerate == date_str = None /\ lookback_days = 0
        latest    == IF enumerate THEN LatestTable(env) ELSE None
        probe     == IF date_str /= None \/ lookback_days > 0
                     THEN Probe(env, DatesToTry(date_str, lookback_days), 1, <<>>)
                     ELSE [table |-> None, probed |-> <<>>]
    IN [table_to_query |-> IF probe.table /= None THEN The(probe.table)
                           ELSE IF latest /= None THEN The(latest)
                           ELSE PredictionLatest,
        listed |-> enumerate,
        probed |-> probe.probed]

\* Top10Result that names the alias whatever table was read
Top10ResultAlias(df, table_to_query) ==
    IF df /= <<>> THEN Some([df |-> df, table |-> PredictionLatest]) ELSE None

\* lines 122-129: the pair of the rows and the table read, None without rows
Top10Result(df, table_to_query) ==
    IF df /= <<>> THEN Some([df |-> df, table |-> table_to_query]) ELSE None

\* Top10Run whose failed selection steps are shown as errors
Top10RunLoud(date_str, lookback_days, env, client_ok, outcome) ==
    LET sel == SelectTable(date_str, lookback_days, env)
        df  == Query(env, sel.table_to_query, outcome)
        bad == (IF sel.listed /\ env.list_fails THEN 1 ELSE 0)
                 + Cardinality({k \in 1..Len(sel.probed) : ~GetTable(env, sel.probed[k])})
    IN IF ~client_ok
       THEN [table_to_query |-> None, listed |-> FALSE, probed |-> <<>>, queried |-> None,
             ret |-> None, errors |-> 2]
       ELSE
       [table_to_query |-> Some(sel.table_to_query), listed |-> sel.listed,
        probed |-> sel.probed, queried |-> Some(sel.table_to_query),
        ret |-> IF df.raises THEN None ELSE Top10Result(df.df, sel.table_to_query),
        errors |-> bad + (IF df.raises THEN 2 ELSE 0)]

\* lines 29-135: the whole call. Without a client nothing is selected; an
\* exception of the client or of the query is shown with two st.error
Top10Run(date_str, lookback_days, env, client_ok, outcome) ==
    IF ~client_ok
    THEN [table_to_query |-> None, listed |-> FALSE, probed |-> <<>>, queried |-> None,
          ret |-> None, errors |-> 2]
    ELSE LET sel == SelectTable(date_str, lookback_days, env)
             df  == Query(env, sel.table_to_query, outcome)
         IN [table_to_query |-> Some(sel.table_to_query), listed |-> sel.listed,
             probed |-> sel.probed, queried |-> Some(sel.table_to_query),
             ret |-> IF df.raises THEN None ELSE Top10Result(df.df, sel.table_to_query),
             errors |-> IF df.raises THEN 2 ELSE 0]

\* ------------------------------------------------- get_title_viral_rate

\* the loop over the listed tables, lines 333-343: the table with the latest date
\* among those whose name parses, None when there is none
RECURSIVE RateScanTables(_, _, _)
RateScanTables(tables, latest_date, latest_table) ==
    IF tables = {} THEN latest_table
    ELSE LET t    == CHOOSE x \in tables : TRUE
             rest == tables \ {t}
             dt   == IF t.prefix /\ PrefixLen + SuffixLen(t.suffix) >= PrefixLen + 8
                     THEN Strptime(t.suffix)
                     ELSE None
         IN IF dt /= None /\ (latest_date = None \/ The(dt) > The(latest_date))
            THEN RateScanTables(rest, dt, Some(t))
            ELSE RateScanTables(rest, latest_date, latest_table)

\* lines 327-347: the enumeration; a listing that raises finds nothing
RateLatestTable(env) ==
    LET tables == ListTables(env)
    IN IF tables = None THEN None ELSE RateScanTables(The(tables), None, None)

\* lines 350-361
RateBaseDate(date_str) ==
    IF date_str /= None /\ Strptime(The(date_str)) /= None
    THEN The(Strptime(The(date_str)))
    ELSE Today
RateDatesToTry(date_str, lookback_days) ==
    [d \in 1..(Max(lookback_days, 0) + 1) |-> Strftime(RateBaseDate(date_str) - (d - 1))]

\* lines 364-372: the candidates are probed in order until get_table returns
RECURSIVE RateProbe(_, _, _, _)
RateProbe(env, dates_to_try, k, probed) ==
    IF k > Len(dates_to_try) THEN [table |-> None, probed |-> probed]
    ELSE LET candidate == Table(TRUE, dates_to_try[k])
         IN IF GetTable(env, candidate)
            THEN [table |-> Some(candidate), probed |-> Append(probed, candidate)]
            ELSE RateProbe(env, dates_to_try, k + 1, Append(probed, candidate))

\* RateSelectTable that never enumerates
RateSelectTableNoListing(date_str, lookback_days, env) ==
    LET probe == IF date_str /= None \/ lookback_days > 0
                 THEN RateProbe(env, RateDatesToTry(date_str, lookback_days), 1, <<>>)
                 ELSE [table |-> None, probed |-> <<>>]
    IN [table_to_query |-> IF probe.table /= None THEN The(probe.table) ELSE PredictionLatest,
        listed |-> FALSE, probed |-> probe.probed]

\* lines 324-372
RateSelectTable(date_str, lookback_days, env) ==
    LET enumerate == date_str = None /\ lookback_days = 0
        latest    == IF enumerate THEN RateLatestTable(env) ELSE None
        probe     == IF date_str /= None \/ lookback_days > 0
                     THEN RateProbe(env, RateDatesToTry(date_str, lookback_days), 1, <<>>)
                     ELSE [table |-> None, probed |-> <<>>]
    IN [table_to_query |-> IF probe.table /= None THEN The(probe.table)
                           ELSE IF latest /= None THEN The(latest)
                           ELSE PredictionLatest,
        listed |-> enumerate,
        probed |-> probe.probed]

\* what the query of one title can answer: no row, a row without a
\* probability, a row with one
RateOutcomes == {Raises, Answers(<<>>), Answers(<<None>>), Answers(<<Some(Rat(1, 2))>>)}

\* lines 391-396
RateResult(df) ==
    IF df /= <<>> /\ df[1] /= None THEN Some(Mul(The(df[1]), Int2Rat(100))) ELSE None

\* lines 320-400: an exception is silent
RateRun(date_str, lookback_days, env, client_ok, outcome) ==
    IF ~client_ok
    THEN [table_to_query |-> None, listed |-> FALSE, probed |-> <<>>, queried |-> None,
          ret |-> None, errors |-> 0]
    ELSE LET sel == RateSelectTable(date_str, lookback_days, env)
             df  == Query(env, sel.table_to_query, outcome)
         IN [table_to_query |-> Some(sel.table_to_query), listed |-> sel.listed,
             probed |-> sel.probed, queried |-> Some(sel.table_to_query),
             ret |-> IF df.raises THEN None ELSE RateResult(df.df),
             errors |-> 0]

\* the arguments of the calls: no date, the date of a day, or a text that
\* is no date; the look-back counts; the titles
DateStrs == {None, Some(BadDate)} \cup {Some(Strftime(day)) : day \in Days}
Lookbacks == 0..MaxLookback
Titles == {1, 2}

\* ------------------------------------------------------ the page sections
\* x.empty of the value get_top10_predictions returned: the value is the
\* pair (df, table_to_query), and a tuple has no attribute 'empty'
AttrEmpty(x) == [raises |-> "AttributeError", value |-> FALSE]

\* `x is not None and not x.empty`
HasRows(x) ==
    IF x = None THEN [raises |-> "", value |-> FALSE]
    ELSE LET e == AttrEmpty(The(x))
         IN [raises |-> e.raises, value |-> ~e.value]

\* top_n, and default_list of display_trends_section
TopN == 5
DefaultList == [j \in 1..10 |-> j]

\* app.py lines 299-401: the table of the predictions with the ranks 1..n,
\* or the warning and the mock table
RenderTop10(data) ==
    LET c == HasRows(data)
    IN IF c.raises /= ""
       THEN [raised |-> c.raises, warnings |-> {}, shown |-> {}, display_df |-> None]
       ELSE IF c.value
       THEN [raised |-> "", warnings |-> {}, shown |-> {"display_df"},
             display_df |-> Some([j \in 1..Len(The(data).df) |->
                                     [rank |-> j, title |-> The(data).df[j]]])]
       ELSE [raised |-> "", warnings |-> {"no predictions"}, shown |-> {"mock_data"},
             display_df |-> None]

\* trends.py lines 141-149: the keywords of the trend fetch
PickKeywords(data) ==
    LET c == HasRows(data)
    IN IF c.raises /= ""
       THEN [raised |-> c.raises, warnings |-> {}, keywords |-> <<>>]
       ELSE IF c.value
       THEN [raised |-> "", warnings |-> {},
             keywords |-> SubSeq(The(data).df, 1, Min(TopN, Len(The(data).df)))]
       ELSE [raised |-> "", warnings |-> {"no predictions"},
             keywords |-> SubSeq(DefaultList, 1, TopN)]

\* RenderTrends that draws whatever it was given
RenderTrendsAlways(data, kws) ==
    IF data = None THEN [raised |-> "TypeError", warnings |-> {}, shown |-> {"ranking_df"}]
    ELSE [raised |-> "", warnings |-> {}, shown |-> {"ranking_df", "fig", "fig2"}]

\* trends.py lines 154-212: the ranking and the charts of the table, or the
\* warning; trends_data[keywords] needs every keyword as a column
RenderTrends(data, kws) ==
    IF data = None
    THEN [raised |-> "", warnings |-> {"no trends"}, shown |-> {}]
    ELSE IF SeqToSet(kws) \subseteq SeqToSet(The(data).cols)
    THEN [raised |-> "", warnings |-> {}, shown |-> {"ranking_df", "fig", "fig2"}]
    ELSE [raised |-> "KeyError", warnings |-> {}, shown |-> {"ranking_df"}]

\* ------------------------------------------------------------------- state
VARIABLES
    pc,                     \* where the call is
    args,                   \* the keywords argument of the call (optional)
    keywords,               \* the local keywords, after the default
    batches, i,             \* the batches and the loop index (from 0)
    df_total,               \* optional table
    baseline_anchor_series, \* optional series
    requests,               \* the keyword lists given to build_payload
    errors,                 \* st.error messages shown by the call
    ret,                    \* optional table the call returns
    raised,                 \* an exception left the function
    answers,                \* what interest_over_time() answered, in order
    failed,                 \* the API call that raised, "" when none did
    cache,                  \* the memoized entries, by argument
    now,                    \* the clock, in seconds
    call,                   \* how the memoized call was served
    fetched,                \* by argument, the last result stored and when
    timeframes,             \* the timeframe given to build_payload, per request
    bq_pc,                  \* "idle", or "done" when a BigQuery call has run
    bq_call,                \* the function called, its arguments and what it met
    table_to_query,         \* the table selected (optional)
    listed,                 \* list_tables was called
    probed,                 \* the candidates given to get_table, in order
    queried,                \* the table the query read (optional)
    bq_ret,                 \* what the call returns (optional)
    bq_errors,              \* st.error messages shown by the call
    ui_pc,                  \* where the render of a page section is
    top10_data,             \* app.py: what get_top10_predictions returned
    display_df,             \* app.py: the ranked rows of the table shown (optional)
    trends_data,            \* display_trends_section: what get_netflix_trends returned
    pred_df,                \* display_trends_section: the same
    ui_keywords,            \* the keywords given to get_netflix_trends
    warnings,               \* the st.warning messages of the render
    shown,                  \* the tables and charts of the render
    ui_raised               \* the exception that ended the render, "" when none

vars == <<pc, args, keywords, batches, i, df_total, baseline_anchor_series,
          requests, errors, ret, raised, answers, failed, cache, now, call, fetched,
          timeframes, bq_pc, bq_call, table_to_query, listed, probed, queried,
          bq_ret, bq_errors, ui_pc, top10_data, display_df, trends_data, pred_df,
          ui_keywords, warnings, shown, ui_raised>>

bq == <<bq_pc, bq_call, table_to_query, listed, probed, queried, bq_ret, bq_errors>>
ui == <<ui_pc, top10_data, display_df, trends_data, pred_df, ui_keywords, warnings,
        shown, ui_raised>>
locals == <<keywords, batches, i, df_total, baseline_anchor_series>>
memo == <<cache, now, call, fetched>>
trends == <<pc, args, locals, requests, errors, ret, raised, answers, failed,
            timeframes, memo>>

\* the time windows a caller can ask for (the selectbox of the custom query)
Timeframes == {"now 7-d", "today 1-m", "today 3-m", "today 12-m"}

\* Timeframe that is the window the caller of the memoized function wants
TimeframeOfCaller == call.window

\* timeframe='now 7-d': the function has no parameter for it
Timeframe == "now 7-d"

\* the arguments the memoized function is called with in WindowSpec
WindowArgs == {Some([j \in 1..(BatchCap + 1) |-> j])}

NoCall == [served |-> "none", at |-> 0, prev |-> NoEntry, runs |-> 0,
           key |-> None, value |-> None, window |-> "now 7-d"]

NoEnv == [tables |-> {}, list_fails |-> FALSE, denied |-> {}]
NoBqCall == [fn |-> "", title |-> 0, date_str |-> None, lookback_days |-> 0,
             env |-> NoEnv, client_ok |-> TRUE, outcome |-> Answers(<<>>)]

Init ==
    /\ pc = "idle"
    /\ args = None
    /\ keywords = <<>>
    /\ batches = <<>>
    /\ i = 0
    /\ df_total = None
    /\ baseline_anchor_series = None
    /\ requests = <<>>
    /\ errors = 0
    /\ ret = None
    /\ raised = FALSE
    /\ answers = <<>>
    /\ failed = ""
    /\ cache = [a \in CacheArgs \cup WindowArgs |-> NoEntry]
    /\ now = 0
    /\ call = NoCall
    /\ fetched = [a \in CacheArgs \cup WindowArgs |-> NoEntry]
    /\ timeframes = <<>>
    /\ bq_pc = "idle"
    /\ bq_call = NoBqCall
    /\ table_to_query = None
    /\ listed = FALSE
    /\ probed = <<>>
    /\ queried = None
    /\ bq_ret = None
    /\ bq_errors = 0
    /\ ui_pc = "idle"
    /\ top10_data = None
    /\ display_df = None
    /\ trends_data = None
    /\ pred_df = None
    /\ ui_keywords = <<>>
    /\ warnings = {}
    /\ shown = {}
    /\ ui_raised = ""

\* entry of the function body: lines 23-24
Enter(a) ==
    /\ args' = a
    /\ keywords' = IF a = None THEN DefaultKeywords ELSE The(a)
    /\ batches' = <<>>
    /\ i' = 0
    /\ df_total' = None
    /\ baseline_anchor_series' = None
    /\ requests' = <<>>
    /\ errors' = 0
    /\ ret' = None
    /\ raised' = FALSE
    /\ answers' = <<>>
    /\ failed' = ""
    /\ timeframes' = <<>>
    /\ pc' = "TrendReq"

\* the except clause, lines 95-97
Except ==
    LET h == ExceptHandler(df_total)
    IN /\ ret' = h.ret
       /\ errors' = errors + h.errors
       /\ raised' = h.raised
       /\ failed' = pc
       /\ UNCHANGED answers
       /\ pc' = "done"

Single == Len(keywords) <= BatchCap
Request == IF Single THEN SingleRequest(keywords) ELSE batches[i + 1]

\* the body is run with the cache bypassed
Invoke(a) ==
    /\ pc = "idle"
    /\ Enter(a)
    /\ UNCHANGED <<memo, bq, ui>>

\* TrendReq(hl='en-US', tz=360), then lines 39-51 when there are more than 5
TrendReqOk ==
    /\ pc = "TrendReq"
    /\ batches' = IF Single THEN <<>> ELSE BuildBatches(keywords)
    /\ pc' = "build_payload"
    /\ UNCHANGED <<args, keywords, i, df_total, baseline_anchor_series,
                   requests, errors, ret, raised, answers, failed, timeframes, memo, bq, ui>>

TrendReqFails ==
    /\ pc = "TrendReq"
    /\ Except
    /\ UNCHANGED <<args, locals, requests, timeframes, memo, bq, ui>>

\* pytrends.build_payload(...), lines 32 and 54
BuildPayloadOk ==
    /\ pc = "build_payload"
    /\ requests' = Append(requests, Request)
    /\ timeframes' = Append(timeframes, Timeframe)
    /\ pc' = "interest_over_time"
    /\ UNCHANGED <<args, locals, errors, ret, raised, answers, failed, memo, bq, ui>>

BuildPayloadFails ==
    /\ pc = "build_payload"
    /\ requests' = Append(requests, Request)
    /\ timeframes' = Append(timeframes, Timeframe)
    /\ Except
    /\ UNCHANGED <<args, locals, memo, bq, ui>>

\* pytrends.interest_over_time() and what follows it: lines 33-36 for a
\* single request; lines 55-82 for a batch, and lines 84-93 after the last
InterestOverTimeOk ==
    /\ pc = "interest_over_time"
    /\ \E df \in Responses(Request) :
         /\ answers' = Append(answers, df)
         /\ IF Single
            THEN /\ ret' = SingleResult(df)
                 /\ UNCHANGED <<i, df_total, baseline_anchor_series>>
            ELSE LET st == ProcessBatch(i, keywords[1], df, df_total, baseline_anchor_series)
                 IN /\ df_total' = st.df_total
                    /\ baseline_anchor_series' = st.baseline
                    /\ i' = i + 1
                    /\ ret' = IF i + 1 < Len(batches) THEN ret
                              ELSE Finalize(st.df_total, keywords)
    /\ pc' = IF ~Single /\ i + 1 < Len(batches) THEN "build_payload" ELSE "done"
    /\ UNCHANGED <<args, keywords, batches, requests, errors, raised, failed,
                   timeframes, memo, bq, ui>>

InterestOverTimeFails ==
    /\ pc = "interest_over_time"
    /\ Except
    /\ UNCHANGED <<args, locals, requests, timeframes, memo, bq, ui>>

\* the frame of a finished call is gone
Reset ==
    /\ args' = None
    /\ keywords' = <<>>
    /\ batches' = <<>>
    /\ i' = 0
    /\ df_total' = None
    /\ baseline_anchor_series' = None
    /\ requests' = <<>>
    /\ errors' = 0
    /\ ret' = None
    /\ raised' = FALSE
    /\ answers' = <<>>
    /\ failed' = ""
    /\ timeframes' = <<>>

\* the body returns to a caller that bypassed the cache
Return ==
    /\ pc = "done"
    /\ pc' = "idle"
    /\ Reset
    /\ UNCHANGED <<memo, bq, ui>>

Body ==
    \/ TrendReqOk
    \/ TrendReqFails
    \/ BuildPayloadOk
    \/ BuildPayloadFails
    \/ InterestOverTimeOk
    \/ InterestOverTimeFails

Next ==
    \/ \E kws \in KeywordLists : Invoke(Some(kws))
    \/ Invoke(None)
    \/ Body
    \/ Return

Spec == Init /\ [][Next]_vars

\* a call of the memoized function: a live entry is returned without running
\* the body, otherwise the body is run
CachedCall(a, w) ==
    /\ pc \in {"idle", "returned"}
    /\ IF CacheHit(cache[a], now)
       THEN /\ Reset
            /\ pc' = "hit"
            /\ call' = [served |-> "hit", at |-> now, prev |-> fetched[a], runs |-> 0,
                        key |-> a, value |-> cache[a][1].value, window |-> w]
       ELSE /\ Enter(a)
            /\ call' = [served |-> "miss", at |-> now, prev |-> fetched[a], runs |-> 1,
                        key |-> a, value |-> None, window |-> w]
    /\ UNCHANGED <<cache, now, fetched, bq, ui>>

\* the cached value is handed to the caller
ReturnHit ==
    /\ pc = "hit"
    /\ pc' = "returned"
    /\ UNCHANGED <<args, locals, requests, errors, ret, raised, answers, failed,
                   timeframes, memo, bq, ui>>

\* the body has returned: its result is stored with the ttl and handed to the caller
StoreAndReturn ==
    /\ pc = "done"
    /\ cache' = [cache EXCEPT ![call.key] = CacheStore(ret, now)]
    /\ fetched' = [fetched EXCEPT ![call.key] = <<[value |-> ret, at |-> now, window |-> call.window,
                                                failed |-> failed /= ""]>>]
    /\ call' = [call EXCEPT !.value = ret]
    /\ pc' = "returned"
    /\ Reset
    /\ UNCHANGED <<now, bq, ui>>

\* time passes
Tick ==
    /\ now < MaxTicks * TickLen
    /\ now' = now + TickLen
    /\ UNCHANGED <<pc, args, locals, requests, errors, ret, raised, answers, failed,
                   timeframes, cache, call, fetched, bq, ui>>

CacheNext ==
    \/ \E a \in CacheArgs : CachedCall(a, Timeframe)
    \/ Body
    \/ ReturnHit
    \/ StoreAndReturn
    \/ Tick

CacheSpec == Init /\ [][CacheNext]_vars

\* callers that want different time windows, at one time of the clock
WindowNext ==
    \/ \E a \in WindowArgs, w \in Timeframes : CachedCall(a, w)
    \/ Body
    \/ ReturnHit
    \/ StoreAndReturn

WindowSpec == Init /\ [][WindowNext]_vars

\* ------------------------------------------------- the BigQuery functions
\* what a run leaves in the state
BqRecord(r) ==
    /\ table_to_query' = r.table_to_query
    /\ listed' = r.listed
    /\ probed' = r.probed
    /\ queried' = r.queried
    /\ bq_ret' = r.ret
    /\ bq_errors' = r.errors
    /\ bq_pc' = "done"

\* what a call can meet; without a client the dataset is not reached
Meets(env, client_ok, outcome) == client_ok \/ (env = NoEnv /\ outcome = Raises)

\* get_top10_predictions(date_str, lookback_days)
Top10Call(date_str, lookback_days) ==
    \E env \in Env, client_ok \in BOOLEAN, outcome \in QueryOutcomes :
        /\ Meets(env, client_ok, outcome)
        /\ bq_call' = [fn |-> "get_top10_predictions", title |-> 0,
                       date_str |-> date_str, lookback_days |-> lookback_days,
                       env |-> env, client_ok |-> client_ok, outcome |-> outcome]
        /\ BqRecord(Top10Run(date_str, lookback_days, env, client_ok, outcome))

GetTop10Predictions(date_str, lookback_days) ==
    /\ bq_pc = "idle" /\ ui_pc = "idle"
    /\ Top10Call(date_str, lookback_days)
    /\ UNCHANGED <<trends, ui>>

\* get_title_viral_rate(title, date_str, lookback_days)
GetTitleViralRate(title, date_str, lookback_days) ==
    /\ bq_pc = "idle" /\ ui_pc = "idle"
    /\ \E env \in Env, client_ok \in BOOLEAN, outcome \in RateOutcomes :
        /\ Meets(env, client_ok, outcome)
        /\ bq_call' = [fn |-> "get_title_viral_rate", title |-> title,
                       date_str |-> date_str, lookback_days |-> lookback_days,
                       env |-> env, client_ok |-> client_ok, outcome |-> outcome]
        /\ BqRecord(RateRun(date_str, lookback_days, env, client_ok, outcome))
    /\ UNCHANGED <<trends, ui>>

\* the frame of a finished call is gone
BqReset ==
    /\ bq_pc' = "idle"
    /\ bq_call' = NoBqCall
    /\ table_to_query' = None
    /\ listed' = FALSE
    /\ probed' = <<>>
    /\ queried' = None
    /\ bq_ret' = None
    /\ bq_errors' = 0

BqReturn ==
    /\ bq_pc = "done" /\ ui_pc = "idle"
    /\ BqReset
    /\ UNCHANGED <<trends, ui>>

SelectNext ==
    \/ \E date_str \in DateStrs, lookback_days \in Lookbacks :
          GetTop10Predictions(date_str, lookback_days)
    \/ \E title \in Titles, date_str \in DateStrs, lookback_days \in Lookbacks :
          GetTitleViralRate(title, date_str, lookback_days)
    \/ BqReturn

SelectSpec == Init /\ [][SelectNext]_vars

\* ------------------------------------------------------ the page sections
\* app.py line 297, trends.py line 139: get_top10_predictions()
AppTop10 ==
    /\ ui_pc = "idle" /\ bq_pc = "idle" /\ pc = "idle"
    /\ Top10Call(None, 0)
    /\ ui_pc' = "app_top10"
    /\ UNCHANGED <<top10_data, display_df, trends_data, pred_df, ui_keywords, warnings,
                   shown, ui_raised, trends>>

DisplayTop10 ==
    /\ ui_pc = "idle" /\ bq_pc = "idle" /\ pc = "idle"
    /\ Top10Call(None, 0)
    /\ ui_pc' = "trends_top10"
    /\ UNCHANGED <<top10_data, display_df, trends_data, pred_df, ui_keywords, warnings,
                   shown, ui_raised, trends>>

\* app.py lines 299-401
AppRenderTop10 ==
    /\ ui_pc = "app_top10" /\ bq_pc = "done"
    /\ top10_data' = bq_ret
    /\ LET r == RenderTop10(bq_ret)
       IN /\ ui_raised' = r.raised
          /\ warnings' = r.warnings
          /\ shown' = r.shown
          /\ display_df' = r.display_df
    /\ ui_pc' = "app_done"
    /\ BqReset
    /\ UNCHANGED <<trends_data, pred_df, ui_keywords, trends>>

\* trends.py lines 141-149
DisplayKeywords ==
    /\ ui_pc = "trends_top10" /\ bq_pc = "done"
    /\ pred_df' = bq_ret
    /\ LET r == PickKeywords(bq_ret)
       IN /\ ui_raised' = r.raised
          /\ warnings' = r.warnings
          /\ ui_keywords' = r.keywords
          /\ ui_pc' = IF r.raised /= "" THEN "trends_raised" ELSE "trends_keywords"
    /\ BqReset
    /\ UNCHANGED <<top10_data, display_df, trends_data, shown, trends>>

\* trends.py line 152: get_netflix_trends(keywords=keywords), the body run
DisplayFetch ==
    /\ ui_pc = "trends_keywords" /\ pc = "idle"
    /\ Enter(Some(ui_keywords))
    /\ ui_pc' = "trends_fetch"
    /\ UNCHANGED <<top10_data, display_df, trends_data, pred_df, ui_keywords, warnings,
                   shown, ui_raised, memo, bq>>

\* trends.py lines 154-212
DisplayRender ==
    /\ ui_pc = "trends_fetch" /\ pc = "done"
    /\ trends_data' = ret
    /\ LET r == RenderTrends(ret, ui_keywords)
       IN /\ ui_raised' = r.raised
          /\ warnings' = warnings \cup r.warnings
          /\ shown' = r.shown
    /\ ui_pc' = "trends_done"
    /\ pc' = "idle"
    /\ Reset
    /\ UNCHANGED <<top10_data, display_df, pred_df, ui_keywords, memo, bq>>

\* the next run of the script starts afresh
Rerun ==
    /\ ui_pc \in {"app_done", "trends_raised", "trends_done"}
    /\ ui_pc' = "idle"
    /\ top10_data' = None
    /\ display_df' = None
    /\ trends_data' = None
    /\ pred_df' = None
    /\ ui_keywords' = <<>>
    /\ warnings' = {}
    /\ shown' = {}
    /\ ui_raised' = ""
    /\ UNCHANGED <<trends, bq>>

PageNext ==
    \/ AppTop10
    \/ AppRenderTop10
    \/ DisplayTop10
    \/ DisplayKeywords
    \/ DisplayFetch
    \/ Body
    \/ DisplayRender
    \/ Rerun

PageSpec == Init /\ [][PageNext]_vars

\* ------------------------------------------------------------ the claims
Done == pc = "done"
NoFailure == failed = ""
Anchor == keywords[1]
KeywordCols(df) == SeqToSet(df.cols) \ {IsPartial}
FirstN(s, n) == SubSeq(s, 1, Min(n, Len(s)))

\* the keywords of the list not in any of the first j - 1 requests, in input order
Unplaced(j) ==
    SelectCols(keywords,
               SeqToSet(keywords) \ UNION {SeqToSet(requests[m]) : m \in 1..(j - 1)})

\* answer j has data for the anchor, and so has batch 1: batch j is merged
Merged(j) ==
    /\ ~Empty(answers[1]) /\ HasCol(answers[1], Anchor)
    /\ ~Empty(answers[j]) /\ HasCol(answers[j], Anchor)
BaselineMean == Mean(Series(answers[1], Anchor))
AnchorMean(j) == Mean(Series(answers[j], Anchor))
Ratio(j) == IF AnchorMean(j) = Zero THEN Zero ELSE Div(BaselineMean, AnchorMean(j))
BatchIdx(c) == CHOOSE j \in 2..Len(requests) : c \in SeqToSet(requests[j])
InRange(v) == IsFinite(v) /\ Leq(Zero, v) /\ Leq(v, Int2Rat(100))

\* C1: whenever a call returns a table, its columns are exactly the keywords,
\* in their order, and a keyword no answer had a column for is all zero.
C1_ColumnsComplete ==
    (Done /\ ret /= None) =>
        LET t == The(ret) IN
        /\ t.cols = keywords
        /\ \A k \in SeqToSet(keywords) :
             (\A j \in 1..Len(answers) : ~HasCol(answers[j], k))
                 => \A r \in t.rows : t.val[<<k, r>>] = Zero

\* C2: for N > 5 keywords the batches built are 1 + ceil((N-5)/4); each one
\* after the first is the anchor followed by 1 to 4 other keywords, and every
\* keyword is in some batch.
C2_BatchCount ==
    /\ (~Single /\ pc \in {"build_payload", "interest_over_time"}) => batches /= <<>>
    /\ (~Single /\ batches /= <<>>) =>
        LET N == Len(keywords) IN
        /\ Len(batches) = 1 + ((N - 5 + 3) \div 4)
        /\ \A j \in 2..Len(batches) :
             /\ batches[j][1] = Anchor
             /\ Len(batches[j]) \in 2..5
             /\ \A m \in 2..Len(batches[j]) : batches[j][m] /= Anchor
        /\ \A k \in 1..N : \E j \in 1..Len(batches) : keywords[k] \in SeqToSet(batches[j])

C2_Witness == Done /\ NoFailure /\ Len(keywords) = 10 /\ Len(batches) = 3

\* C3: for N > 5 keywords every request has at most 5 keywords, the first is
\* keywords[0:5], request j > 1 is the anchor followed by the next at most 4
\* keywords not placed in an earlier request, and shares exactly one keyword
\* with the first; a call in which no API call fails sends every batch.
C3_BatchContents ==
    ~Single =>
        /\ \A j \in 1..Len(requests) :
             /\ requests[j] = batches[j]
             /\ Len(requests[j]) <= 5
             /\ (j = 1) => requests[j] = SubSeq(keywords, 1, 5)
             /\ (j > 1) =>
                  /\ Unplaced(j) /= <<>>
                  /\ requests[j] = <<Anchor>> \o FirstN(Unplaced(j), 4)
                  /\ Cardinality(SeqToSet(requests[j]) \cap SeqToSet(requests[1])) = 1
        /\ (Done /\ NoFailure) => (Len(requests) = Len(batches) /\ Unplaced(Len(requests) + 1) = <<>>)

C3_Witness == Done /\ NoFailure /\ ~Single /\ Len(requests) = 3 /\ Len(requests[3]) = 2

\* C4 as claimed: for N > 5 and no API call failing, the call returns absent
\* if and only if no batch returned data.
C4_AbsentIffNoData ==
    (Done /\ ~Single /\ NoFailure) =>
        (ret = None <=> \A j \in 1..Len(answers) : Empty(answers[j]))

\* C4 amended: for N > 5 and no API call failing, the call returns absent if
\* and only if the first batch returned no data.
C4_AbsentIffFirstEmpty ==
    (Done /\ ~Single /\ NoFailure) => (ret = None <=> Empty(answers[1]))

C4_Witness ==
    /\ Done /\ ~Single /\ NoFailure /\ ret = None
    /\ Empty(answers[1])
    /\ \E j \in 2..Len(answers) : ~Empty(answers[j])

\* C5: no exception leaves the function; a call in which an API call failed
\* has shown one error message and returns absent, whatever table the
\* earlier batches built.
C5_NeverRaises ==
    /\ ~raised
    /\ errors <= 1
    /\ (failed /= "") => (Done /\ errors = 1 /\ ret = None)

C5_Witness ==
    /\ Done /\ failed = "interest_over_time" /\ i >= 1 /\ df_total /= None
    /\ errors = 1 /\ ret = None

\* C6: a call with at most 5 keywords (the default list when keywords is
\* absent) sends no request but the input list in its order, and sends it
\* once when the client was constructed; an empty answer gives absent and no
\* error message.
C6_SingleRequest ==
    (Done /\ Single) =>
        /\ keywords = (IF args = None THEN DefaultKeywords ELSE The(args))
        /\ Len(requests) <= 1
        /\ \A j \in 1..Len(requests) : requests[j] = keywords
        /\ (failed /= "TrendReq") => requests = <<keywords>>
        /\ (answers = <<EmptyDF>>) => (ret = None /\ errors = 0 /\ ~raised)

C6_Witness ==
    /\ Done /\ Single /\ args = None /\ answers = <<EmptyDF>>
    /\ requests = <<DefaultKeywords>> /\ ret = None /\ errors = 0

\* C7 as claimed: every value of a returned table lies in 0..100.
C7_ValuesInRange ==
    (Done /\ ret /= None) =>
        \A c \in SeqToSet(The(ret).cols), r \in The(ret).rows :
            InRange(The(ret).val[<<c, r>>])

\* C7 amended: every value of a returned table is a number >= 0; it lies in
\* 0..100 in a table for at most 5 keywords and in the columns of batch 1; in
\* a column of a later batch it is at most 100 * baseline_mean /
\* batch_anchor_mean.
C7_ValuesBounded ==
    (Done /\ ret /= None) =>
        \A c \in SeqToSet(The(ret).cols), r \in The(ret).rows :
            LET v == The(ret).val[<<c, r>>] IN
            /\ IsFinite(v) /\ Leq(Zero, v)
            /\ IF Single \/ c \in SeqToSet(requests[1])
               THEN InRange(v)
               ELSE \/ v = Zero
                    \/ /\ Merged(BatchIdx(c))
                       /\ Leq(v, Mul(Int2Rat(100), Ratio(BatchIdx(c))))

C7_Witness ==
    /\ Done /\ ret /= None /\ ~Single
    /\ \E c \in SeqToSet(The(ret).cols), r \in The(ret).rows :
         /\ IsFinite(The(ret).val[<<c, r>>])
         /\ ~Leq(The(ret).val[<<c, r>>], Int2Rat(100))

\* C8: a merged batch after the first whose anchor mean is 0 contributes only
\* zeros: each of its columns is 0 at the batch's timestamps in the merged
\* table and 0 everywhere in the returned table, and no error is shown.
C8_ZeroAnchorMean ==
    \A j \in 2..Len(answers) :
        (~Single /\ Merged(j) /\ AnchorMean(j) = Zero) =>
            /\ NoFailure => (errors = 0 /\ ~raised)
            /\ \A c \in KeywordCols(answers[j]) \ {Anchor} :
                 /\ HasCol(The(df_total), c)
                 /\ \A r \in The(df_total).rows :
                      The(df_total).val[<<c, r>>] =
                          (IF r \in answers[j].rows THEN Zero ELSE NaN)
                 /\ (Done /\ NoFailure) =>
                      /\ ret /= None
                      /\ \A r \in The(ret).rows : The(ret).val[<<c, r>>] = Zero

C8_Witness ==
    /\ Done /\ ret /= None /\ ~Single
    /\ \E j \in 2..Len(answers) :
         /\ Merged(j) /\ AnchorMean(j) = Zero /\ BaselineMean /= Zero
         /\ \E c \in KeywordCols(answers[j]) \ {Anchor}, r \in answers[j].rows :
              answers[j].val[<<c, r>>] /= Zero

\* C9: in a returned table, each column of a merged batch after the first
\* whose anchor mean is not 0 holds the batch's values times (mean of the
\* anchor in batch 1) / (mean of the anchor in the batch): unchanged when the
\* means are equal, doubled when they are 50 and 25; the anchor column is the
\* one of batch 1.
C9_Rescaled ==
    (Done /\ ret /= None /\ ~Single) =>
        \A j \in 2..Len(answers) :
            (Merged(j) /\ AnchorMean(j) /= Zero) =>
                /\ The(ret).cols = keywords
                /\ \A r \in answers[1].rows :
                     The(ret).val[<<Anchor, r>>] = answers[1].val[<<Anchor, r>>]
                /\ \A c \in KeywordCols(answers[j]) \ {Anchor}, r \in answers[j].rows :
                     LET v == answers[j].val[<<c, r>>]
                         w == The(ret).val[<<c, r>>]
                     IN /\ w = Mul(v, Div(BaselineMean, AnchorMean(j)))
                        /\ (BaselineMean = AnchorMean(j)) => w = v
                        /\ (BaselineMean = Int2Rat(50) /\ AnchorMean(j) = Int2Rat(25))
                              => w = Mul(v, Int2Rat(2))

C9_Witness ==
    /\ Done /\ ret /= None /\ Len(keywords) = 7
    /\ Merged(2) /\ BaselineMean = Int2Rat(50) /\ AnchorMean(2) = Int2Rat(25)
    /\ \E r \in answers[2].rows : The(ret).val[<<keywords[7], r>>] = Int2Rat(140)

\* C10: a call made while the entry stored for its arguments is less than TTL
\* old is served from the cache: it returns the stored value, runs the body
\* no time and sends no request.  A call made once the entry is TTL old or
\* older runs the body exactly once, and what the body returns replaces the
\* entry, valid for TTL from the time it is stored.
C10_Memoized ==
    (call.served /= "none" /\ call.prev /= NoEntry) =>
        IF call.at < call.prev[1].at + TTL
        THEN /\ call.served = "hit"
             /\ pc \in {"hit", "returned"}
             /\ call.runs = 0
             /\ requests = <<>>
             /\ call.value = call.prev[1].value
             /\ fetched[call.key] = call.prev
        ELSE /\ call.served = "miss"
             /\ call.runs = 1
             /\ (pc = "returned") =>
                  /\ fetched[call.key][1].value = call.value
                  /\ fetched[call.key][1].at >= call.at
                  /\ cache[call.key] =
                       <<[value |-> call.value,
                          expires |-> fetched[call.key][1].at + TTL]>>

C10_Witness ==
    /\ pc = "returned" /\ call.served = "miss" /\ call.prev /= NoEntry
    /\ call.at >= call.prev[1].at + TTL
    /\ call.value /= None /\ call.value /= call.prev[1].value
    /\ cache[call.key][1].value = call.value

Called == bq_pc = "done" /\ bq_call.client_ok
NoArgs == bq_call.date_str = None /\ bq_call.lookback_days = 0

\* the tables of the dataset named prediction_YYYYMMDD for a date
SnapshotDays == (Today - MaxDays - MaxLookback)..(Today + 1)
SnapshotsOf(env) ==
    {t \in env.tables : t.prefix /\ \E day \in SnapshotDays : t.suffix = Strftime(day)}

\* the date the candidates count back from, and the candidates
BaseDay ==
    IF \E day \in Days : bq_call.date_str = Some(Strftime(day))
    THEN CHOOSE day \in Days : bq_call.date_str = Some(Strftime(day))
    ELSE Today
Candidates ==
    LET base == BaseDay
    IN [k \in 1..(bq_call.lookback_days + 1) |-> Snapshot(base - (k - 1))]
Exists(t) == t \in bq_call.env.tables \ bq_call.env.denied

\* C12: with no date and no look-back, get_top10_predictions and
\* get_title_viral_rate query the prediction_YYYYMMDD table of the latest date
\* among the listed tables whose name parses; names that do not parse are
\* ignored, and prediction_latest is queried when none parses or the listing
\* fails. No candidate is probed.
C12_LatestSnapshot ==
    (Called /\ NoArgs) =>
        LET snaps == SnapshotsOf(bq_call.env)
        IN /\ listed /\ probed = <<>>
           /\ queried = table_to_query
           /\ IF bq_call.env.list_fails \/ snaps = {}
              THEN queried = Some(PredictionLatest)
              ELSE \E day \in SnapshotDays :
                     /\ queried = Some(Snapshot(day))
                     /\ Snapshot(day) \in snaps
                     /\ \A later \in SnapshotDays :
                          later > day => Snapshot(later) \notin snaps

C12_Witness ==
    /\ Called /\ NoArgs /\ ~bq_call.env.list_fails
    /\ bq_call.fn = "get_title_viral_rate"
    /\ bq_call.env.tables =
         {Snapshot(Today - 1), PredictionLatest,
          Table(TRUE, BadDate), Table(FALSE, Strftime(Today + 1))}
    /\ queried = Some(Table(TRUE, 20241231))
    /\ bq_ret /= None

\* C13: with a date or a look-back, the candidates are the tables of the
\* date (today without a date that parses) minus 0, 1, ..., look-back days;
\* they are probed in that order, the table queried is the first whose
\* get_table returns and none is probed after it; prediction_latest is
\* queried when none returns. The dataset is not listed.
C13_FirstExisting ==
    (Called /\ ~NoArgs) =>
        LET cands == Candidates
        IN /\ ~listed
           /\ queried = table_to_query
           /\ Len(probed) >= 1 /\ Len(probed) <= Len(cands)
           /\ probed = SubSeq(cands, 1, Len(probed))
           /\ \A k \in 1..(Len(probed) - 1) : ~Exists(probed[k])
           /\ IF \E k \in 1..Len(cands) : Exists(cands[k])
              THEN Exists(probed[Len(probed)]) /\ queried = Some(probed[Len(probed)])
              ELSE Len(probed) = Len(cands) /\ queried = Some(PredictionLatest)

C13_Witness ==
    /\ Called /\ bq_call.fn = "get_top10_predictions"
    /\ bq_call.date_str = Some(20250101) /\ bq_call.lookback_days = 2
    /\ bq_call.env.tables = {Snapshot(Today - 1), PredictionLatest}
    /\ bq_call.env.denied = {}
    /\ probed = <<Table(TRUE, 20250101), Table(TRUE, 20241231)>>
    /\ queried = Some(Table(TRUE, 20241231))

\* C14: a failure of list_tables or of get_table is neither propagated nor
\* shown. Once the client exists a table is selected and the query is issued
\* on it: after a failed listing it is prediction_latest, a candidate whose
\* get_table fails is followed by the next candidate, and the only errors
\* shown are the two of a query that raises in get_top10_predictions.
C14_SelectionSilent ==
    Called =>
        /\ table_to_query /= None /\ queried = table_to_query
        /\ (listed /\ bq_call.env.list_fails) => queried = Some(PredictionLatest)
        /\ \A k \in 1..Len(probed) :
             ~Exists(probed[k]) => (k < Len(probed) \/ k = bq_call.lookback_days + 1)
        /\ LET df == Query(bq_call.env, The(queried), bq_call.outcome)
           IN /\ bq_errors = IF df.raises /\ bq_call.fn = "get_top10_predictions"
                             THEN 2 ELSE 0
              /\ (~df.raises /\ df.df /= <<>> /\ bq_call.fn = "get_top10_predictions")
                   => bq_ret /= None

C14_Witness ==
    /\ Called /\ bq_call.fn = "get_top10_predictions"
    /\ bq_call.date_str = None /\ bq_call.lookback_days = 1
    /\ Snapshot(Today) \in bq_call.env.denied
    /\ probed = <<Snapshot(Today), Snapshot(Today - 1)>>
    /\ queried = Some(Snapshot(Today - 1))
    /\ bq_errors = 0 /\ bq_ret /= None

\* C16: get_top10_predictions returns None, or the pair of a table with at
\* least one row and a table name; the name is the table the selection chose
\* and the query read, and the rows are those the query answered.
C16_PairOrNone ==
    (bq_pc = "done" /\ bq_call.fn = "get_top10_predictions") =>
        \/ bq_ret = None
        \/ /\ The(bq_ret).df /= <<>>
           /\ The(bq_ret).df = bq_call.outcome.df
           /\ Some(The(bq_ret).table) = table_to_query
           /\ Some(The(bq_ret).table) = queried
           /\ The(bq_ret).table \in bq_call.env.tables

C16_Witness ==
    /\ bq_pc = "done" /\ bq_call.fn = "get_top10_predictions"
    /\ bq_call.date_str = Some(20250101) /\ bq_call.lookback_days = 1
    /\ bq_ret = Some([df |-> Rows(BatchCap + 2), table |-> Snapshot(Today - 1)])
    /\ PredictionLatest \in bq_call.env.tables

\* the loop over the answers dfs from the k-th on, and what the function would
\* return for the keywords kws had the answers been dfs
RECURSIVE LoopFrom(_, _, _, _, _)
LoopFrom(anchor, dfs, k, total, baseline) ==
    IF k > Len(dfs) THEN total
    ELSE LET st == ProcessBatch(k - 1, anchor, dfs[k], total, baseline)
         IN LoopFrom(anchor, dfs, k + 1, st.df_total, st.baseline)
Without(s, j) == [k \in 1..(Len(s) - 1) |-> IF k < j THEN s[k] ELSE s[k + 1]]
Skipped(j) == SeqToSet(requests[j]) \ {Anchor}
ResultWithout(j) ==
    Finalize(LoopFrom(Anchor, Without(answers, j), 1, None, None),
             SelectCols(keywords, SeqToSet(keywords) \ Skipped(j)))

\* C19: for more than 5 keywords with data in batch 1, a later batch without
\* data does not end the loop: every batch is requested, the non-anchor
\* keywords of the batch without data are all-zero columns of the result, and
\* every other column holds the values the result has when that batch is
\* not in the list.
C19_EmptyBatchSkipped ==
    (Done /\ NoFailure /\ ~Single /\ ~Empty(answers[1])) =>
        \A j \in 2..Len(answers) :
            Empty(answers[j]) =>
                /\ Len(requests) = Len(batches) /\ Len(answers) = Len(batches)
                /\ ret /= None /\ ResultWithout(j) /= None
                /\ The(ret).cols = keywords
                /\ The(ret).rows = The(ResultWithout(j)).rows
                /\ \A r \in The(ret).rows :
                     /\ \A c \in Skipped(j) : The(ret).val[<<c, r>>] = Zero
                     /\ \A c \in SeqToSet(keywords) \ Skipped(j) :
                          The(ret).val[<<c, r>>] = The(ResultWithout(j)).val[<<c, r>>]

C19_Witness ==
    /\ Done /\ NoFailure /\ Len(keywords) = 2 * BatchCap
    /\ ~Empty(answers[1]) /\ Empty(answers[2]) /\ Merged(3)
    /\ ret /= None
    /\ \A r \in The(ret).rows : The(ret).val[<<keywords[6], r>>] = Zero
    /\ AnchorMean(3) = Int2Rat(25) /\ BaselineMean = Int2Rat(50)
    /\ HasCol(answers[3], keywords[10])
    /\ \E r \in The(ret).rows :
         /\ answers[3].val[<<keywords[10], r>>] /= Zero
         /\ The(ret).val[<<keywords[10], r>>] =
              Mul(answers[3].val[<<keywords[10], r>>], Int2Rat(2))

\* the section of display_trends_section is past its choice of keywords
PastKeywords == ui_pc \in {"trends_raised", "trends_keywords", "trends_fetch", "trends_done"}

\* C15: in display_trends_section, whatever get_top10_predictions returned,
\* the render reaches the trend fetch without raising with at most 5
\* keywords: the titles of the first min(5, n) rows in rank order when rows
\* were returned, the first 5 of the built-in list, with a warning, when not.
C15_KeywordsFromPredictions ==
    PastKeywords =>
        /\ ui_raised /= "AttributeError" /\ ui_pc /= "trends_raised"
        /\ Len(ui_keywords) <= 5
        /\ IF pred_df /= None
           THEN ui_keywords = FirstN(The(pred_df).df, 5)
           ELSE /\ "no predictions" \in warnings
                /\ ui_keywords = <<1, 2, 3, 4, 5>>

\* C17: whenever get_netflix_trends returns None to display_trends_section,
\* the section shows the "no data" warning, renders no ranking table and no
\* chart, and raises no exception.
C17_AbsentTrendsWarned ==
    (ui_pc = "trends_done" /\ trends_data = None) =>
        /\ "no trends" \in warnings
        /\ shown = {}
        /\ ui_raised = ""

C17_Witness ==
    /\ ui_pc = "trends_done" /\ trends_data = None
    /\ ui_keywords = <<1, 2, 3, 4, 5>>
    /\ warnings = {"no predictions", "no trends"}
    /\ shown = {} /\ ui_raised = ""

\* C18: in the Top-10 section of the main page, whatever
\* get_top10_predictions returned, the render completes without an uncaught
\* exception: with rows, a table with the ranks 1..n in the returned order;
\* without, a warning and the mock table.
C18_Top10Rendered ==
    ui_pc = "app_done" =>
        /\ ui_raised = ""
        /\ IF top10_data /= None
           THEN /\ shown = {"display_df"}
                /\ display_df /= None
                /\ Len(The(display_df)) = Len(The(top10_data).df)
                /\ \A j \in 1..Len(The(display_df)) :
                     The(display_df)[j] = [rank |-> j, title |-> The(top10_data).df[j]]
           ELSE "no predictions" \in warnings /\ shown = {"mock_data"}

\* C20: for every title, date, look-back and state of the dataset,
\* get_title_viral_rate selects the table get_top10_predictions selects for
\* the same date, look-back and dataset: the table a call selected is the one
\* the selection of either function gives.
C20_SameSelection ==
    Called =>
        /\ table_to_query =
             Some(SelectTable(bq_call.date_str, bq_call.lookback_days,
                              bq_call.env).table_to_query)
        /\ table_to_query =
             Some(RateSelectTable(bq_call.date_str, bq_call.lookback_days,
                                  bq_call.env).table_to_query)

C20_Witness ==
    /\ Called /\ bq_call.fn = "get_title_viral_rate" /\ bq_call.title = 2
    /\ NoArgs /\ ~bq_call.env.list_fails
    /\ Snapshot(Today) \in bq_call.env.tables
    /\ table_to_query = Some(Snapshot(Today))
    /\ SelectTable(None, 0, bq_call.env).table_to_query = Snapshot(Today)

\* C21 (as stated): for more than 5 keywords, every column batch 1 returned
\* is in the returned table exactly as batch 1 returned it.
C21_FirstBatchUnchanged ==
    (Done /\ ~Single /\ NoFailure /\ ret /= None) =>
        \A c \in KeywordCols(answers[1]) :
            Series(The(ret), c) = Series(answers[1], c)

\* C21 (amended): for more than 5 keywords, once batch 1 has returned data its
\* columns, the anchor included, keep the values batch 1 returned at the
\* timestamps batch 1 returned, in df_total through the loop and in the
\* returned table; the baseline anchor series is the anchor column of batch 1
\* through the loop, and a merged batch is rescaled by the mean of that
\* column.  At a timestamp only later batches returned, a batch-1 column is
\* NaN in df_total and 0 in the returned table.
C21_FirstBatchKept ==
    (~Single /\ Len(answers) >= 1 /\ ~Empty(answers[1])) =>
        LET first == Drop(answers[1], IsPartial)
        IN /\ baseline_anchor_series =
                IF HasCol(first, Anchor) THEN Some(Series(first, Anchor)) ELSE None
           /\ df_total /= None
           /\ \A c \in SeqToSet(first.cols) :
                \A r \in The(df_total).rows :
                    The(df_total).val[<<c, r>>] =
                        IF r \in first.rows THEN first.val[<<c, r>>] ELSE NaN
           /\ first.rows \subseteq The(df_total).rows
           /\ \A j \in 2..Len(answers) :
                Merged(j) =>
                    \A c \in KeywordCols(answers[j]) \ {Anchor}, r \in answers[j].rows :
                        The(df_total).val[<<c, r>>] =
                            Mul(answers[j].val[<<c, r>>],
                                Scale(Mean(Series(answers[1], Anchor)), AnchorMean(j)))
           /\ (Done /\ ret /= None) =>
                \A c \in SeqToSet(first.cols), r \in The(ret).rows :
                    The(ret).val[<<c, r>>] =
                        IF r \in first.rows THEN first.val[<<c, r>>] ELSE Zero

C21_Witness ==
    /\ Done /\ NoFailure /\ ret /= None /\ Len(keywords) = BatchCap + 1
    /\ Merged(2) /\ BaselineMean = Int2Rat(100) /\ AnchorMean(2) = Int2Rat(25)
    /\ answers[1].rows = {NumRows} /\ answers[2].rows = Timestamps
    /\ The(ret).val[<<Anchor, NumRows>>] = Int2Rat(100)
    /\ The(ret).val[<<Anchor, 1>>] = Zero
    /\ baseline_anchor_series = Some(Series(answers[1], Anchor))

\* C22: an absent result is memoized like a table.  After a call that ended
\* in an API failure or in an empty answer, a call with the same arguments
\* made less than TTL later returns absent from the cache, without running
\* the body and without a request; the API is asked again only by a call made
\* once the entry is TTL old.
C22_AbsentMemoized ==
    (call.served /= "none" /\ call.prev /= NoEntry /\ call.prev[1].value = None) =>
        /\ call.at < call.prev[1].at + TTL =>
             /\ call.served = "hit"
             /\ pc \in {"hit", "returned"}
             /\ call.runs = 0
             /\ call.value = None
             /\ requests = <<>> /\ answers = <<>>
        /\ (call.served = "miss" \/ requests /= <<>>) =>
             call.at >= call.prev[1].at + TTL

C22_Witness ==
    /\ pc = "returned" /\ call.served = "hit" /\ call.value = None
    /\ call.prev[1].failed
    /\ call.at > call.prev[1].at /\ call.at < call.prev[1].at + TTL
    /\ call.key = Some(<<1>>)

====
